---- MODULE Spec2Model ----
(***************************************************************************)
(* Content-addressable deduplication store of abnormal-file-hub:           *)
(* DeduplicationService.upload_file / delete_file over the File and        *)
(* FileContent tables and the CAS directory of the media storage.          *)
(*                                                                         *)
(* Every request worker runs its handler statement by statement.  The      *)
(* code brackets each handler in transaction.atomic() and takes no lock of *)
(* its own (no select_for_update, no F() expression), so the tables behave *)
(* as under the database's default READ COMMITTED isolation: a SELECT      *)
(* sees the committed rows plus the transaction's own writes, an UPDATE or *)
(* DELETE waits for another transaction's uncommitted write of the same    *)
(* row, and writes become visible at commit.  The file storage is not      *)
(* transactional: a write or delete of a physical file is immediate and    *)
(* survives a rollback.                                                    *)
(***************************************************************************)
EXTENDS Integers, Sequences, FiniteSets, TLC

\* ------------------------------------------------------------------------
\* Bounds
\* ------------------------------------------------------------------------
\* Requests (uploads and deletes together) the workers serve in one run.
MaxCalls == 4
\* Block length of the chunked read (CHUNK_SIZE scaled down to the model's
\* byte strings).
BlockLen == 2
\* Hex digits kept of a digest.
DigestLen == 5

\* Concurrent request workers.
Procs == {"w1", "w2"}

\* File ids (uuid4 values): every upload takes a fresh one.
FileIds == 1..MaxCalls

\* Byte strings the clients upload.
ContentA == <<1, 2>>
ContentB == <<1, 2, 3>>

\* Upload requests: (bytes, original filename, MIME type).  The first two
\* carry equal bytes under different names and types, the first and third
\* carry different bytes under the same name.
Uploads ==
  { [data |-> ContentA, name |-> <<"a", ".", "t">>, type |-> "text/plain"],
    [data |-> ContentA, name |-> <<"b">>,           type |-> "application/pdf"],
    [data |-> ContentB, name |-> <<"a", ".", "t">>, type |-> "text/plain"] }

\* The empty upload, under two names.
EmptyUploads ==
  { [data |-> <<>>, name |-> <<"e", "1", ".", "t">>, type |-> "text/plain"],
    [data |-> <<>>, name |-> <<"e", "2", ".", "t">>, type |-> "text/plain"] }

\* An upload one byte above the configured maximum size.
LargeUpload ==
  [data |-> <<1, 2, 3, 4>>, name |-> <<"l", ".", "t">>, type |-> "text/plain"]

\* Every upload a client sends with a file part.
Requests == Uploads \cup EmptyUploads \cup {LargeUpload}

\* Bytes as long as ContentA whose digest differs from ContentA's in the
\* last digit only, so that both contents are stored in one shard directory.
ContentC == <<1, 3>>
ShardUploads ==
  { [data |-> ContentA, name |-> <<"a", ".", "t">>, type |-> "text/plain"],
    [data |-> ContentC, name |-> <<"a", ".", "t">>, type |-> "text/plain"] }

NoRow == [absent |-> TRUE]
NoWrite == [untouched |-> TRUE]
None == [none |-> TRUE]
\* uploaded[i] while File id i has not been handed out.
NoBytes == <<-1>>

Min(a, b) == IF a < b THEN a ELSE b

\* ------------------------------------------------------------------------
\* Hashing (DeduplicationService.compute_hash)
\* ------------------------------------------------------------------------
RECURSIVE Pow16(_)
Pow16(n) == IF n = 0 THEN 1 ELSE 16 * Pow16(n - 1)

\* The digest state before any byte (hashlib.sha256()).
Sha256New == 5381

RECURSIVE Sha256Update(_, _)
\* sha256.update(chunk): the state absorbs the bytes of the chunk in order.
\* The digest is a function of the byte sequence alone, chunk boundaries
\* leave it unchanged, and the byte strings of the model get distinct digests.
Sha256Update(state, chunk) ==
  IF chunk = <<>> THEN state
  ELSE Sha256Update((state * 33 + Head(chunk) + 1) % Pow16(DigestLen), Tail(chunk))

\* sha256.hexdigest(): DigestLen hex digits, most significant first.
HexDigest(state) ==
  [i \in 1..DigestLen |-> (state \div Pow16(DigestLen - i)) % 16]

\* file_obj.read(n) at position pos.
ReadChunk(data, pos, n) == SubSeq(data, pos + 1, Min(pos + n, Len(data)))

RECURSIVE HashLoop(_, _, _)
\* for chunk in iter(lambda: file_obj.read(CHUNK_SIZE), b''): sha256.update(chunk)
HashLoop(data, pos, state) ==
  LET chunk == ReadChunk(data, pos, BlockLen)
  IN  IF chunk = <<>> THEN state
      ELSE HashLoop(data, pos + Len(chunk), Sha256Update(state, chunk))

\* A compute_hash that leaves the reader where the loop ended.
SeekNowhere(file_obj) == file_obj

\* Line 49: file_obj.seek(0).
Seek0(file_obj) == [file_obj EXCEPT !.pos = 0]

\* file_obj.read(): the bytes from the position to the end.
Read(file_obj) == SubSeq(file_obj.data, file_obj.pos + 1, Len(file_obj.data))

\* A hash of the first block only (the read loop left out).
compute_hash_first_block(data) ==
  HexDigest(Sha256Update(Sha256New, ReadChunk(data, 0, BlockLen)))

\* Lines 47-51: hash the blocks of the upload, return the hex digest.
compute_hash(data) == HexDigest(HashLoop(data, 0, Sha256New))

Hashes == { compute_hash(u.data) : u \in Requests \cup ShardUploads }

\* ------------------------------------------------------------------------
\* Path allocation (upload_file lines 98-99, content_addressable_path)
\* ------------------------------------------------------------------------
RECURSIVE LastDot(_, _)
\* Index of the last '.' of name at or before position i, 0 if there is none.
LastDot(name, i) ==
  IF i = 0 THEN 0
  ELSE IF name[i] = "." THEN i ELSE LastDot(name, i - 1)

\* original_filename.rsplit('.', 1)[-1] if '.' in original_filename else ''
Extension(name) ==
  LET d == LastDot(name, Len(name))
  IN  IF d = 0 THEN <<>> ELSE SubSeq(name, d + 1, Len(name))

\* storage_filename = f"{content_hash}.{ext}" if ext else content_hash
\* A storage file name is the hash, the suffix the storage added to find a
\* free name (0: none) and the extension.
StorageFilename(hash, name) == [stem |-> hash, alt |-> 0, ext |-> Extension(name)]

\* cas/{hash[0:2]}/{hash[2:4]}/{hash}.{ext}   (or without ".{ext}")
content_addressable_path(hash, filename) ==
  <<"cas", SubSeq(hash, 1, 2), SubSeq(hash, 3, 4), filename>>

CasRoot == <<"cas">>
Dirname(path) == SubSeq(path, 1, Len(path) - 1)

RECURSIVE AvailableFrom(_, _, _)
\* Storage.get_available_name: the name itself when free, else the name with
\* a suffix that makes it free (the first free one stands for the random one).
AvailableFrom(path, k, taken) ==
  LET leaf == path[Len(path)]
      cand == [path EXCEPT ![Len(path)] = [leaf EXCEPT !.alt = k]]
  IN  IF cand \notin taken THEN cand ELSE AvailableFrom(path, k + 1, taken)

get_available_name(path, taken) == AvailableFrom(path, 0, taken)

\* ------------------------------------------------------------------------
\* State
\* ------------------------------------------------------------------------
VARIABLES
  contents,   \* committed FileContent table: hash -> row or NoRow
  files,      \* committed File table: id -> row or NoRow
  disk,       \* physical files of the storage (paths)
  dirs,       \* directories below the CAS root
  nextId,     \* next unused File id
  pc,         \* position of each worker in its handler
  loc,        \* local variables of each worker's handler
  txc,        \* FileContent writes of each worker's open transaction
  txf,        \* File writes of each worker's open transaction
  last,       \* outcome of the call that returned most recently
  calls,      \* requests received so far
  uploaded,   \* bytes of the upload request each File id was taken for
  metrics,    \* result of the get_storage_metrics call that returned last
  rag,        \* call the latest step made to the indexing collaborator
  snaps,      \* committed states each running metrics call has lived through
  reader,     \* the file object a compute_hash call on its own works on
  mark        \* the store as the upload of the latest round trip found it

vars == <<contents, files, disk, dirs, nextId, pc, loc, txc, txf, last, calls,
          uploaded, metrics, rag, snaps, reader, mark>>

NoLocals == [u |-> None, hash |-> None, content |-> None, file |-> 0]
NoOutcome == [op |-> "none", status |-> "none", flag |-> FALSE]
NoMetrics == [never |-> TRUE]
\* Round trips are not followed / are followed and none is under way.
Unobserved == [observed |-> FALSE]
NoMark == [observed |-> TRUE]

Init ==
  /\ contents = [h \in Hashes |-> NoRow]
  /\ files = [i \in FileIds |-> NoRow]
  /\ disk = {}
  /\ dirs = {}
  /\ nextId = 1
  /\ pc = [p \in Procs |-> "idle"]
  /\ loc = [p \in Procs |-> NoLocals]
  /\ txc = [p \in Procs |-> [h \in Hashes |-> NoWrite]]
  /\ txf = [p \in Procs |-> [i \in FileIds |-> NoWrite]]
  /\ last = NoOutcome
  /\ calls = 0
  /\ uploaded = [i \in FileIds |-> NoBytes]
  /\ metrics = NoMetrics
  /\ rag = None
  /\ snaps = [p \in Procs |-> {}]
  /\ reader = None
  /\ mark = Unobserved

\* ------------------------------------------------------------------------
\* The tables as a transaction sees and locks them
\* ------------------------------------------------------------------------
\* SELECT of FileContent by hash / of File by id inside worker p's
\* transaction: its own uncommitted write, else the committed row.
VisibleContent(p, h) == IF txc[p][h] # NoWrite THEN txc[p][h] ELSE contents[h]
VisibleFile(p, i) == IF txf[p][i] # NoWrite THEN txf[p][i] ELSE files[i]

\* An UPDATE or DELETE of row h waits while another open transaction has
\* written the committed row (that transaction's insert of a row not yet
\* committed is invisible and blocks nothing but another insert).
RowLockedByOther(p, h) ==
  \E q \in Procs \ {p} : txc[q][h] # NoWrite /\ contents[h] # NoRow
\* An INSERT of key h waits while another open transaction has written it.
KeyHeldByOther(p, h) == \E q \in Procs \ {p} : txc[q][h] # NoWrite
FileLockedByOther(p, i) == \E q \in Procs \ {p} : txf[q][i] # NoWrite

NoWrites(p) ==
  /\ txc' = [txc EXCEPT ![p] = [h \in Hashes |-> NoWrite]]
  /\ txf' = [txf EXCEPT ![p] = [i \in FileIds |-> NoWrite]]

\* Leaving the atomic block normally: the transaction's writes become the
\* committed rows.
Commit(p, wc, wf) ==
  /\ contents' = [h \in Hashes |-> IF wc[h] # NoWrite THEN wc[h] ELSE contents[h]]
  /\ files' = [i \in FileIds |-> IF wf[i] # NoWrite THEN wf[i] ELSE files[i]]
  /\ NoWrites(p)

\* The handler returns (or raises) and the worker is free again.
Return(p, op, status, flag) ==
  /\ pc' = [pc EXCEPT ![p] = "idle"]
  /\ loc' = [loc EXCEPT ![p] = NoLocals]
  /\ last' = [op |-> op, status |-> status, flag |-> flag]

\* An exception leaves the atomic block: the transaction is rolled back and
\* the exception reaches the caller.  What was done to the storage stays.
Raise(p, op, error) ==
  /\ NoWrites(p)
  /\ Return(p, op, error, FALSE)
  /\ UNCHANGED <<contents, files>>

Goto(p, label) == pc' = [pc EXCEPT ![p] = label]

\* ------------------------------------------------------------------------
\* The committed tables as get_storage_metrics reads them
\* ------------------------------------------------------------------------
\* Hashes of the committed FileContent rows, ids of the committed File rows.
StoredHashes == { h \in Hashes : contents[h] # NoRow }
StoredFiles == { i \in FileIds : files[i] # NoRow }

RECURSIVE SumSize(_)
\* Sum('size') over the rows of the hashes hs.
SumSize(hs) ==
  IF hs = {} THEN 0
  ELSE LET h == CHOOSE x \in hs : TRUE
       IN  contents[h].size + SumSize(hs \ {h})

\* A term that leaves the reference count out.
LogicalTermUncounted(fc) == fc.size

\* Line 228: fc.size * fc.reference_count
LogicalTerm(fc) == fc.size * fc.reference_count

RECURSIVE SumLogical(_)
\* Lines 226-228: the loop over FileContent.objects.all().
SumLogical(hs) ==
  IF hs = {} THEN 0
  ELSE LET h == CHOOSE x \in hs : TRUE
       IN  LogicalTerm(contents[h]) + SumLogical(hs \ {h})

\* What the four queries of get_storage_metrics return when all of them
\* read the present committed state.
Snapshot ==
  [total_files |-> Cardinality(StoredFiles),
   unique_contents |-> Cardinality(StoredHashes),
   logical_size |-> SumLogical(StoredHashes),
   physical_size |-> SumSize(StoredHashes)]

MetricsLabels == {"m_logical", "m_count"}

\* History of the round trips: the store and the File id an upload found
\* when it began, kept while that upload runs and while the delete of that
\* File runs, completed when that delete has returned successfully, and
\* dropped when the upload or the delete fails and when any other request
\* arrives.
Marked ==
  IF mark = Unobserved THEN mark
  ELSE IF \E p \in Procs : pc[p] = "idle" /\ pc'[p] \in {"u_incr", "u_store"}
  THEN [observed |-> TRUE, done |-> FALSE, file |-> nextId, files |-> files,
        contents |-> contents, disk |-> disk, dirs |-> dirs]
  ELSE IF \/ calls' # calls /\ mark = NoMark
          \/ calls' # calls /\ mark # NoMark
               /\ \A p \in Procs : pc'[p] # "idle" => loc'[p].file # mark.file
          \/ \E p \in Procs : pc[p] # "idle" /\ pc'[p] = "idle"
               /\ last'.status # "ok"
  THEN NoMark
  ELSE IF \E p \in Procs : pc[p] # "idle" /\ pc'[p] = "idle"
               /\ last'.op = "delete"
  THEN [mark EXCEPT !.done = TRUE]
  ELSE mark

\* What every step of a handler leaves behind it.  History of the metrics
\* calls in progress: the committed states from the call's first query on.
\* The history of the round trips.  No handler hashes on its own reader.
Watch ==
  /\ snaps' = [p \in Procs |->
                IF pc'[p] \in MetricsLabels
                THEN snaps[p] \cup {Snapshot'} ELSE {}]
  /\ mark' = Marked
  /\ UNCHANGED reader

\* ------------------------------------------------------------------------
\* The indexing collaborator
\* ------------------------------------------------------------------------
\* A call to the collaborator completes, or something in it raises (the
\* vector store, the broker, the text extraction).
RagOutcomes == {"ok", "failed"}
\* The collaborator while nothing is wrong with it.
RagUp == "ok"

\* No call to the collaborator in this step.
NoTrigger == rag' = None

\* A trigger that is never made.
TriggerNothing(file_id, file_size, outcome) == None

\* Lines 256-257: the settings the trigger reads, neither of them set by
\* the project: indexing is asynchronous for files above the threshold.
\* The threshold is 1 MiB, below the upload limit; here it lies between the
\* sizes of ContentA and ContentB.
RAG_ASYNC_INDEXING == TRUE
RAG_LARGE_FILE_THRESHOLD == 2

\* Lines 259-271: a large file is queued with index_file_for_rag.delay(...),
\* which returns at once; any other file is indexed by calling
\* index_file_for_rag(...) in the caller's thread, which returns when the
\* indexing is done.
IndexingMode(file_size) ==
  IF RAG_ASYNC_INDEXING /\ file_size > RAG_LARGE_FILE_THRESHOLD
  THEN "queued" ELSE "inline"

\* Lines 246-271: _trigger_rag_indexing(file_record) hands the id of the
\* File to index_file_for_rag, queued or called at once.  The call is made
\* at lines 91 and 119, inside the atomic block opened at line 68: row is
\* the File row as committed at that moment, the row a task worker finds
\* (tasks.py lines 67-76).
TriggerRagIndexing(file_id, file_size, outcome) ==
  [kind |-> "index", file |-> file_id, outcome |-> outcome,
   mode |-> IndexingMode(file_size), row |-> files[file_id]]

\* Lines 278-305: _trigger_rag_deletion(file_id) asks the vector store to
\* delete the chunks of that File id, in the caller's thread.  The call is
\* made at line 198, after the atomic block of line 169 is left: row is the
\* File row as committed by then.
TriggerRagDeletion(file_id, outcome) ==
  [kind |-> "cleanup", file |-> file_id, outcome |-> outcome,
   mode |-> "inline", row |-> files'[file_id]]

\* A trigger that lets the collaborator's exception through.
PropagatesFailure(outcome) == outcome = "failed"

\* Lines 273-276 and 308-311: except ImportError and except Exception log
\* and return; nothing the collaborator raises reaches the caller.
Propagates(outcome) == FALSE

\* ------------------------------------------------------------------------
\* DeduplicationService.upload_file
\* ------------------------------------------------------------------------
\* views.py lines 12-14: settings.FILE_UPLOAD_MAX_SIZE (10 MB unless
\* configured), in bytes of the model's byte strings.
get_max_upload_size == 3

\* A check that also turns away a file part without bytes.
NoFileOrEmpty(file_obj) ==
  IF file_obj = None THEN TRUE ELSE Len(file_obj.data) = 0

\* views.py line 79: if not file_obj.  request.FILES.get('file') is None
\* when the request has no file part; an UploadedFile is true whenever it
\* has a name, whatever its size.
NoFileProvided(file_obj) == file_obj = None

\* A size check that lets every upload through.
ExceedsMaxSizeNever(size) == FALSE

\* views.py line 87: file_obj.size > max_size
ExceedsMaxSize(size) == size > get_max_upload_size

\* views.py lines 78-99: FileViewSet.create answers 400 without calling the
\* service when the request has no file part or the file is larger than
\* the maximum.
CreateRejected(p, file_obj) ==
  /\ pc[p] = "idle"
  /\ calls < MaxCalls
  /\ calls' = calls + 1
  /\ \/ /\ NoFileProvided(file_obj)
        /\ last' = [op |-> "upload", status |-> "NoFile", flag |-> FALSE,
                    file_obj |-> file_obj]
     \/ /\ ~NoFileProvided(file_obj)
        /\ ExceedsMaxSize(Len(file_obj.data))
        /\ last' = [op |-> "upload", status |-> "TooLarge", flag |-> FALSE,
                    file_obj |-> file_obj]
  /\ UNCHANGED <<contents, files, disk, dirs, nextId, pc, loc, txc, txf,
                 uploaded, metrics>>
  /\ NoTrigger /\ Watch

\* A lookup that never reports a duplicate.
IsDuplicateNever(existing_content) == FALSE

\* Line 78: if existing_content:
IsDuplicate(existing_content) == existing_content # NoRow

\* Line 70: potential_matches = FileContent.objects.filter(size=file_size),
\* the rows the queryset selects.
PotentialMatches(p, file_size) ==
  { h \in Hashes : /\ VisibleContent(p, h) # NoRow
                   /\ VisibleContent(p, h).size = file_size }

\* A lookup that takes a stored content of the same size for the upload's.
ExistingContentBySize(p, content_hash, potential_matches) ==
  IF potential_matches # {}
  THEN VisibleContent(p, CHOOSE h \in potential_matches : TRUE)
  ELSE NoRow

\* Line 76: FileContent.objects.filter(hash=content_hash).first().  The
\* queryset of line 70 is lazy and never evaluated: the lookup is by hash
\* over the whole table.
ExistingContent(p, content_hash, potential_matches) ==
  VisibleContent(p, content_hash)

\* views.py lines 101-109 and upload_file lines 66-78: the request passed
\* the checks of the view; open the transaction, build the size filter,
\* hash the upload, look the hash up.
UploadLookup(p, u) ==
  /\ pc[p] = "idle"
  /\ calls < MaxCalls
  /\ nextId \in FileIds
  /\ ~NoFileProvided(u)
  /\ ~ExceedsMaxSize(Len(u.data))
  /\ calls' = calls + 1
  /\ LET file_size == Len(u.data)
         potential_matches == PotentialMatches(p, file_size)
         content_hash == compute_hash(u.data)
         existing_content == ExistingContent(p, content_hash, potential_matches)
     IN  /\ loc' = [loc EXCEPT ![p] =
                      [u |-> u, hash |-> content_hash,
                       content |-> existing_content,
                       file |-> nextId]]
         /\ Goto(p, IF IsDuplicate(existing_content) THEN "u_incr" ELSE "u_store")
  /\ nextId' = nextId + 1
  /\ uploaded' = [uploaded EXCEPT ![nextId] = u.data]
  /\ UNCHANGED <<contents, files, disk, dirs, txc, txf, last, metrics>>
  /\ NoTrigger /\ Watch

\* The count written back without the increment.
IncrementedCountStale(cached) == cached

\* The value upload_file writes back for a duplicate (line 80).
IncrementedCount(cached) == cached + 1

\* The File row File.objects.create(...) inserts (lines 84-88, 112-116).
NewFileRecord(p) ==
  [original_filename |-> loc[p].u.name, file_type |-> loc[p].u.type,
   content |-> loc[p].hash]

\* Lines 84-93 and 112-121: File.objects.create(...), the indexing trigger
\* (inside the atomic block; it reads but never writes File, FileContent or
\* the CAS files), the return and with it the commit of the writes wc.
FinishUpload(p, wc, is_duplicate, outcome) ==
  /\ rag' = TriggerRagIndexing(loc[p].file, loc[p].content.size, outcome)
  /\ IF Propagates(outcome)
     THEN Raise(p, "upload", "RagError")
     ELSE /\ Commit(p, wc, [txf[p] EXCEPT ![loc[p].file] = NewFileRecord(p)])
          /\ Return(p, "upload", "ok", is_duplicate)

\* Lines 80-93: existing_content.reference_count += 1; save(update_fields);
\* File.objects.create(...); the indexing trigger (which reads but never
\* writes File, FileContent or the CAS files); return, and with it commit.
\* The UPDATE sets the column to the value computed from the row read at
\* line 76 and waits for another transaction's uncommitted write of the
\* row; save(update_fields=...) raises DatabaseError when no row matched.
\* From the UPDATE to the commit the transaction holds the row and touches
\* nothing another worker can see, so the lines are one step.
UploadIncrement(p, outcome) ==
  /\ pc[p] = "u_incr"
  /\ LET h == loc[p].hash
         n == IncrementedCount(loc[p].content.reference_count)
     IN  /\ ~RowLockedByOther(p, h)
         /\ IF contents[h] = NoRow
            THEN Raise(p, "upload", "DatabaseError") /\ NoTrigger
            ELSE FinishUpload(p, [txc[p] EXCEPT ![h] =
                                    [contents[h] EXCEPT !.reference_count = n]],
                              TRUE, outcome)
  /\ UNCHANGED <<disk, dirs, nextId, calls, uploaded, metrics>>
  /\ Watch

\* Directories FileSystemStorage creates for a path (os.makedirs).
ParentDirs(path) == { SubSeq(path, 1, k) : k \in 2..(Len(path) - 1) }

\* Lines 98-109, storage half of file_content.file.save(): the name comes
\* from content_addressable_path, the storage picks a free name and writes
\* the bytes.
UploadStore(p) ==
  /\ pc[p] = "u_store"
  /\ LET h == loc[p].hash
         storage_filename == StorageFilename(h, loc[p].u.name)
         path == get_available_name(content_addressable_path(h, storage_filename), disk)
     IN  /\ disk' = disk \cup {path}
         /\ dirs' = dirs \cup ParentDirs(path)
         /\ loc' = [loc EXCEPT ![p].content =
                      [file |-> path, size |-> Len(loc[p].u.data),
                       reference_count |-> 1]]
  /\ Goto(p, "u_save")
  /\ UNCHANGED <<contents, files, nextId, txc, txf, last, calls, uploaded, metrics>>
  /\ NoTrigger /\ Watch

\* Line 109, storage half, first part: Storage.save() picks a free name and
\* FileSystemStorage._save() creates the missing directories of the path
\* (os.makedirs(directory, exist_ok=True)).
UploadMakedirs(p) ==
  /\ pc[p] = "u_store"
  /\ LET h == loc[p].hash
         storage_filename == StorageFilename(h, loc[p].u.name)
         path == get_available_name(content_addressable_path(h, storage_filename), disk)
     IN  /\ dirs' = dirs \cup ParentDirs(path)
         /\ loc' = [loc EXCEPT ![p].content =
                      [file |-> path, size |-> Len(loc[p].u.data),
                       reference_count |-> 1]]
  /\ Goto(p, "u_write")
  /\ UNCHANGED <<contents, files, disk, nextId, txc, txf, last, calls, uploaded, metrics>>
  /\ NoTrigger /\ Watch

\* Line 109, storage half, second part: _save() opens the file with
\* O_CREAT | O_EXCL and writes the bytes.  When the directory is gone the
\* open raises FileNotFoundError, which leaves the atomic block; when the
\* name was taken meanwhile, _save() takes the next free name.
UploadWrite(p) ==
  /\ pc[p] = "u_write"
  /\ LET path == get_available_name(loc[p].content.file, disk)
     IN  IF Dirname(path) \in dirs
         THEN /\ disk' = disk \cup {path}
              /\ loc' = [loc EXCEPT ![p].content.file = path]
              /\ Goto(p, "u_save")
              /\ UNCHANGED <<contents, files, txc, txf, last>>
         ELSE /\ Raise(p, "upload", "FileNotFoundError")
              /\ UNCHANGED disk
  /\ UNCHANGED <<dirs, nextId, calls, uploaded, metrics>>
  /\ NoTrigger /\ Watch

\* A save that commits the FileContent row before the write fails.
UploadStoreFailsRowKept(p) ==
  /\ pc[p] = "u_store"
  /\ LET h == loc[p].hash
         storage_filename == StorageFilename(h, loc[p].u.name)
         path == get_available_name(content_addressable_path(h, storage_filename), disk)
     IN  Commit(p, [txc[p] EXCEPT ![h] =
                      [file |-> path, size |-> Len(loc[p].u.data),
                       reference_count |-> 1]],
                   txf[p])
  /\ Return(p, "upload", "OSError", FALSE)
  /\ UNCHANGED <<disk, dirs, nextId, calls, uploaded, metrics>>
  /\ NoTrigger /\ Watch

\* Line 109, the storage raising OSError: creating the directories failed
\* (nothing is left), opening the file failed (the directories are left)
\* or writing the bytes failed (the directories and a partial file are
\* left).  The exception leaves the atomic block; views.py lines 110-114
\* answer 500.
UploadStoreFails(p) ==
  /\ pc[p] = "u_store"
  /\ LET h == loc[p].hash
         storage_filename == StorageFilename(h, loc[p].u.name)
         path == get_available_name(content_addressable_path(h, storage_filename), disk)
     IN  \/ UNCHANGED <<disk, dirs>>
         \/ dirs' = dirs \cup ParentDirs(path) /\ UNCHANGED disk
         \/ dirs' = dirs \cup ParentDirs(path) /\ disk' = disk \cup {path}
  /\ Raise(p, "upload", "OSError")
  /\ UNCHANGED <<nextId, calls, uploaded, metrics>>
  /\ NoTrigger /\ Watch

\* Line 109, save=True: Model.save() of an instance whose primary key is
\* set first tries an UPDATE of the row with that key, which overwrites
\* every column of a committed row of that hash; lines 112-121 then create
\* the File row and commit.  When the UPDATE matches no row the save goes
\* on to the INSERT.
UploadSaveUpdate(p, outcome) ==
  /\ pc[p] = "u_save"
  /\ LET h == loc[p].hash
     IN  /\ ~RowLockedByOther(p, h)
         /\ IF contents[h] # NoRow
            THEN FinishUpload(p, [txc[p] EXCEPT ![h] = loc[p].content], FALSE, outcome)
            ELSE /\ Goto(p, "u_insert")
                 /\ NoTrigger
                 /\ UNCHANGED <<contents, files, loc, txc, txf, last>>
  /\ UNCHANGED <<disk, dirs, nextId, calls, uploaded, metrics>>
  /\ Watch

\* Line 109, the INSERT of the FileContent row, and lines 112-121.  The
\* insert waits for another transaction's uncommitted write of the same key
\* and fails with IntegrityError when a row of that key is committed.
UploadSaveInsert(p, outcome) ==
  /\ pc[p] = "u_insert"
  /\ LET h == loc[p].hash
     IN  /\ ~KeyHeldByOther(p, h)
         /\ IF contents[h] # NoRow
            THEN Raise(p, "upload", "IntegrityError") /\ NoTrigger
            ELSE FinishUpload(p, [txc[p] EXCEPT ![h] = loc[p].content], FALSE, outcome)
  /\ UNCHANGED <<disk, dirs, nextId, calls, uploaded, metrics>>
  /\ Watch

\* ------------------------------------------------------------------------
\* DeduplicationService._cleanup_empty_directories
\* ------------------------------------------------------------------------
\* os.listdir(d): the files and directories directly inside d.
ListDir(d, fs, ds) ==
  { f \in fs : Dirname(f) = d } \cup { c \in ds : Len(c) > 1 /\ Dirname(c) = d }

\* parent_dir.startswith(cas_root)
StartsWith(d, root) == Len(d) >= Len(root) /\ SubSeq(d, 1, Len(root)) = root

RECURSIVE CleanupWalk(_, _, _)
\* Lines 141-151: climb from parent_dir while it is below the CAS root,
\* removing it when it is an empty directory and stopping otherwise.
\* Returns the directories left.
CleanupWalk(parent_dir, fs, ds) ==
  IF parent_dir # <<>> /\ parent_dir # CasRoot /\ StartsWith(parent_dir, CasRoot)
  THEN IF parent_dir \in ds /\ ListDir(parent_dir, fs, ds) = {}
       THEN CleanupWalk(Dirname(parent_dir), fs, ds \ {parent_dir})
       ELSE ds
  ELSE ds

\* A reclaimer that removes both shard directories without looking.
cleanup_whole_branch(file_path, fs, ds) == ds \ ParentDirs(file_path)

\* Lines 135-138.
cleanup_empty_directories(file_path, fs, ds) == CleanupWalk(Dirname(file_path), fs, ds)

\* ------------------------------------------------------------------------
\* FileViewSet.destroy and DeduplicationService.delete_file
\* ------------------------------------------------------------------------
\* An unknown id answered like a completed delete.
NoContentForUnknownId == "ok"

\* views.py line 133: status.HTTP_404_NOT_FOUND
HTTP_404_NOT_FOUND == "NotFound"

\* views.py lines 128-134: get_object(); an unknown id is answered 404
\* without calling the service.
DestroyGet(p, i) ==
  /\ pc[p] = "idle"
  /\ calls < MaxCalls
  /\ calls' = calls + 1
  /\ IF files[i] = NoRow
     THEN /\ last' = [op |-> "delete", status |-> HTTP_404_NOT_FOUND, flag |-> FALSE]
          /\ UNCHANGED <<pc, loc>>
     ELSE /\ loc' = [loc EXCEPT ![p] =
                       [NoLocals EXCEPT !.file = i, !.hash = files[i].content]]
          /\ Goto(p, "d_delete_file")
          /\ UNCHANGED last
  /\ UNCHANGED <<contents, files, disk, dirs, nextId, txc, txf, uploaded, metrics>>
  /\ NoTrigger /\ Watch

\* A decrement by two.
DecrementedTwice(stored) == stored - 2

\* The value delete_file computes from the refreshed row (line 180).
DecrementedCount(stored) == stored - 1

\* A last-reference test that never succeeds.
IsLastReferenceNever(count) == count < 0

\* The test that selects the last-reference branch (line 182).
IsLastReference(count) == count = 0

\* Lines 169-182: open the transaction, file_record.delete(),
\* content.refresh_from_db(), reference_count -= 1 and the branch on the
\* result.  The DELETE waits for another transaction deleting the same row
\* and then matches no row, which Model.delete() does not report.
DeleteRefresh(p) ==
  /\ pc[p] = "d_delete_file"
  /\ LET i == loc[p].file
         row == VisibleContent(p, loc[p].hash)
     IN  /\ ~FileLockedByOther(p, i)
         /\ IF row = NoRow
            THEN Raise(p, "delete", "DoesNotExist")
            ELSE LET n == DecrementedCount(row.reference_count)
                 IN  /\ txf' = IF files[i] # NoRow
                               THEN [txf EXCEPT ![p][i] = NoRow] ELSE txf
                     /\ loc' = [loc EXCEPT ![p].content =
                                  [row EXCEPT !.reference_count = n]]
                     /\ Goto(p, IF IsLastReference(n) THEN "d_physical" ELSE "d_save")
                     /\ UNCHANGED <<contents, files, txc, last>>
  /\ UNCHANGED <<disk, dirs, nextId, calls, uploaded, metrics>>
  /\ NoTrigger /\ Watch

\* A commit that does not check the foreign key.
DanglingAfterUnchecked(wc, wf) == {}

\* File rows that would point at a missing FileContent row once the
\* writes wc, wf are committed (the foreign key File.content, checked when
\* the transaction commits).
DanglingAfter(wc, wf) ==
  { i \in FileIds :
      LET f == IF wf[i] # NoWrite THEN wf[i] ELSE files[i]
      IN  /\ f # NoRow
          /\ (IF wc[f.content] # NoWrite THEN wc[f.content] ELSE contents[f.content]) = NoRow }

RECURSIVE CleanupWalkDenied(_, _, _, _)
\* Lines 141-151 when os.rmdir(denied) raises OSError (the directory is not
\* empty after all, or the removal is not permitted): lines 148-150 break
\* out of the loop.  Returns the directories left.
CleanupWalkDenied(parent_dir, fs, ds, denied) ==
  IF parent_dir # <<>> /\ parent_dir # CasRoot /\ StartsWith(parent_dir, CasRoot)
  THEN IF parent_dir \in ds /\ ListDir(parent_dir, fs, ds) = {}
       THEN IF parent_dir = denied
            THEN ds
            ELSE CleanupWalkDenied(Dirname(parent_dir), fs, ds \ {parent_dir}, denied)
       ELSE ds
  ELSE ds

\* A reclaimer whose OSError reaches delete_file.
DeleteContentRowDeniedRaises(p) ==
  /\ pc[p] = "d_delete_content"
  /\ ~RowLockedByOther(p, loc[p].hash)
  /\ LET file_path == loc[p].content.file
     IN  \E denied \in dirs \ cleanup_empty_directories(file_path, disk, dirs) :
           dirs' = CleanupWalkDenied(Dirname(file_path), disk, dirs, denied)
  /\ Raise(p, "delete", "OSError")
  /\ UNCHANGED <<disk, nextId, calls, uploaded, metrics>>
  /\ NoTrigger /\ Watch

\* Lines 186 and 189 when the removal of one of the directories the walk
\* would remove fails: the DELETE of the FileContent row, then the walk up
\* to the failing os.rmdir, whose OSError lines 148-150 swallow.
DeleteContentRowDenied(p) ==
  /\ pc[p] = "d_delete_content"
  /\ LET h == loc[p].hash
     IN  /\ ~RowLockedByOther(p, h)
         /\ txc' = IF contents[h] # NoRow THEN [txc EXCEPT ![p][h] = NoRow] ELSE txc
  /\ LET file_path == loc[p].content.file
     IN  \E denied \in dirs \ cleanup_empty_directories(file_path, disk, dirs) :
           dirs' = CleanupWalkDenied(Dirname(file_path), disk, dirs, denied)
  /\ Goto(p, "d_commit")
  /\ UNCHANGED <<contents, files, disk, nextId, loc, txf, last, calls, uploaded, metrics>>
  /\ NoTrigger /\ Watch

\* Lines 191-200: the result, the end of the atomic block (the commit of
\* the writes wc), the index cleanup trigger after it (which touches
\* neither table nor the CAS files) and the return.
FinishDelete(p, wc, physical_deleted, outcome) ==
  /\ Commit(p, wc, txf[p])
  /\ rag' = TriggerRagDeletion(loc[p].file, outcome)
  /\ IF Propagates(outcome)
     THEN Return(p, "delete", "RagError", FALSE)
     ELSE Return(p, "delete", "ok", physical_deleted)

\* Lines 194-200: content.save(update_fields=['reference_count']), the
\* result, the commit, the index cleanup trigger (which touches neither
\* table nor the CAS files) and the return.  The column is a
\* PositiveIntegerField: the database rejects a negative value.
DeleteSave(p, outcome) ==
  /\ pc[p] = "d_save"
  /\ LET h == loc[p].hash
         n == loc[p].content.reference_count
     IN  /\ ~RowLockedByOther(p, h)
         /\ IF contents[h] = NoRow
            THEN Raise(p, "delete", "DatabaseError") /\ NoTrigger
            ELSE IF n < 0
            THEN Raise(p, "delete", "IntegrityError") /\ NoTrigger
            ELSE FinishDelete(p, [txc[p] EXCEPT ![h] =
                                    [contents[h] EXCEPT !.reference_count = n]],
                              FALSE, outcome)
  /\ UNCHANGED <<disk, dirs, nextId, calls, uploaded, metrics>>
  /\ Watch

\* A delete that clears the whole CAS tree.
DeletePhysicalTree(p) ==
  /\ pc[p] = "d_physical"
  /\ disk' = { f \in disk : ~StartsWith(f, CasRoot) }
  /\ Goto(p, "d_collect")
  /\ UNCHANGED <<contents, files, dirs, nextId, loc, txc, txf, last, calls, uploaded, metrics>>
  /\ NoTrigger /\ Watch

\* Lines 184-185: content.file.delete(save=False) removes the physical file
\* at once (a file already missing is not an error).
DeletePhysical(p) ==
  /\ pc[p] = "d_physical"
  /\ disk' = disk \ {loc[p].content.file}
  /\ Goto(p, "d_collect")
  /\ UNCHANGED <<contents, files, dirs, nextId, loc, txc, txf, last, calls, uploaded, metrics>>
  /\ NoTrigger /\ Watch

\* File rows the transaction sees pointing at hash h.
Referencing(p, h) ==
  { i \in FileIds : VisibleFile(p, i) # NoRow /\ VisibleFile(p, i).content = h }

\* Line 186, content.delete(), first half: the collector looks for File
\* rows that reference the content; File.content is on_delete=PROTECT.
DeleteCollect(p) ==
  /\ pc[p] = "d_collect"
  /\ IF Referencing(p, loc[p].hash) # {}
     THEN Raise(p, "delete", "ProtectedError")
     ELSE /\ Goto(p, "d_delete_content")
          /\ UNCHANGED <<contents, files, loc, txc, txf, last>>
  /\ UNCHANGED <<disk, dirs, nextId, calls, uploaded, metrics>>
  /\ NoTrigger /\ Watch

\* Line 186, second half, and line 189: the DELETE of the FileContent row,
\* then cls._cleanup_empty_directories(file_path), still inside the atomic
\* block.
DeleteContentRow(p) ==
  /\ pc[p] = "d_delete_content"
  /\ LET h == loc[p].hash
     IN  /\ ~RowLockedByOther(p, h)
         /\ txc' = IF contents[h] # NoRow THEN [txc EXCEPT ![p][h] = NoRow] ELSE txc
  /\ dirs' = cleanup_empty_directories(loc[p].content.file, disk, dirs)
  /\ Goto(p, "d_commit")
  /\ UNCHANGED <<contents, files, disk, nextId, loc, txf, last, calls, uploaded, metrics>>
  /\ NoTrigger /\ Watch

\* Lines 191-200 after the last-reference branch: the result, the end of
\* the atomic block (commit), the index cleanup trigger and the return.
DeleteCommit(p, outcome) ==
  /\ pc[p] = "d_commit"
  /\ IF DanglingAfter(txc[p], txf[p]) # {}
     THEN Raise(p, "delete", "IntegrityError") /\ NoTrigger
     ELSE FinishDelete(p, txc[p], TRUE, outcome)
  /\ UNCHANGED <<disk, dirs, nextId, calls, uploaded, metrics>>
  /\ Watch

\* ------------------------------------------------------------------------
\* DeduplicationService.get_storage_metrics
\* ------------------------------------------------------------------------
\* The quotient a / b of two integers, b > 0, and the float 1.0.
Quotient(a, b) == [num |-> a, den |-> b]
One == [num |-> 1, den |-> 1]

\* The ratio taken the other way round.
DeduplicationRatioInverted(unique_contents, total_files) ==
  IF unique_contents > 0 THEN Quotient(total_files, unique_contents) ELSE One

\* Line 235: unique_contents / total_files if total_files > 0 else 1.0
DeduplicationRatio(unique_contents, total_files) ==
  IF total_files > 0 THEN Quotient(unique_contents, total_files) ELSE One

\* Lines 219-222: the aggregate query.  Count is 0 and Sum is None over an
\* empty table (<<>> here, <<n>> for the sum n).  The method opens no transaction: each of its queries reads
\* the rows committed at that moment.
MetricsAggregate(p) ==
  /\ pc[p] = "idle"
  /\ calls < MaxCalls
  /\ calls' = calls + 1
  /\ loc' = [loc EXCEPT ![p].content =
               [unique_contents |-> Cardinality(StoredHashes),
                physical_size |-> IF StoredHashes = {} THEN <<>>
                                  ELSE <<SumSize(StoredHashes)>>]]
  /\ Goto(p, "m_logical")
  /\ UNCHANGED <<contents, files, disk, dirs, nextId, txc, txf, last,
                 uploaded, metrics>>
  /\ NoTrigger /\ Watch

\* Lines 226-228: logical_size.
MetricsLogical(p) ==
  /\ pc[p] = "m_logical"
  /\ loc' = [loc EXCEPT ![p].content =
               [unique_contents |-> loc[p].content.unique_contents,
                physical_size |-> loc[p].content.physical_size,
                logical_size |-> SumLogical(StoredHashes)]]
  /\ Goto(p, "m_count")
  /\ UNCHANGED <<contents, files, disk, dirs, nextId, txc, txf, last, calls,
                 uploaded, metrics>>
  /\ NoTrigger /\ Watch

\* Lines 230-244: total_files, the "or 0" defaults, storage_saved,
\* deduplication_ratio and the returned dict.
MetricsCount(p) ==
  /\ pc[p] = "m_count"
  /\ LET content_stats == loc[p].content
         logical_size == content_stats.logical_size
         total_files == Cardinality(StoredFiles)
         unique_contents == content_stats.unique_contents
         physical_size == IF content_stats.physical_size = <<>> THEN 0
                          ELSE content_stats.physical_size[1]
         storage_saved == logical_size - physical_size
     IN  metrics' = [total_files |-> total_files,
                     unique_contents |-> unique_contents,
                     logical_size |-> logical_size,
                     physical_size |-> physical_size,
                     storage_saved |-> storage_saved,
                     deduplication_ratio |->
                       DeduplicationRatio(unique_contents, total_files)]
  /\ pc' = [pc EXCEPT ![p] = "idle"]
  /\ loc' = [loc EXCEPT ![p] = NoLocals]
  /\ UNCHANGED <<contents, files, disk, dirs, nextId, txc, txf, last, calls,
                 uploaded>>
  /\ NoTrigger /\ Watch

\* ------------------------------------------------------------------------
\* StorageStatsView._calculate_storage_stats (stats/views.py)
\* ------------------------------------------------------------------------
Max(a, b) == IF a > b THEN a ELSE b

\* The float 0.0.
Zero == [num |-> 0, den |-> 1]

\* round(a / b, places digits), b > 0, as a quotient over that power of ten.
RoundedQuotient(a, b, scale) ==
  [num |-> (2 * a * scale + b) \div (2 * b), den |-> scale]

RECURSIVE SumContentSize(_)
\* Lines 46-49: File.objects.aggregate(total=Sum('content__size')), the
\* sizes of the FileContent rows joined to the File rows fs.
SumContentSize(fs) ==
  IF fs = {} THEN 0
  ELSE LET i == CHOOSE x \in fs : TRUE
       IN  (IF contents[files[i].content] # NoRow
            THEN contents[files[i].content].size ELSE 0)
             + SumContentSize(fs \ {i})

\* Lines 38-82: the statistics the view computes from the committed
\* tables (savings_percent and the timestamp, which the service does not
\* report, left out).
calculate_storage_stats ==
  LET total_files == Cardinality(StoredFiles)
      unique_contents == Cardinality(StoredHashes)
      duplicate_count == Max(0, total_files - unique_contents)
      logical_size_bytes == SumContentSize(StoredFiles)
      physical_size_bytes == SumSize(StoredHashes)
      bytes_saved == Max(0, logical_size_bytes - physical_size_bytes)
      deduplication_ratio ==
        IF total_files > 0
        THEN RoundedQuotient(unique_contents, total_files, 10000)
        ELSE Zero
  IN  [total_files |-> total_files,
       unique_contents |-> unique_contents,
       duplicate_count |-> duplicate_count,
       logical_size_bytes |-> logical_size_bytes,
       physical_size_bytes |-> physical_size_bytes,
       bytes_saved |-> bytes_saved,
       deduplication_ratio |-> deduplication_ratio]

\* stats/views.py, GET of the statistics: the view answers with the
\* statistics of the present committed state.
StorageStatsGet(p) ==
  /\ pc[p] = "idle"
  /\ calls < MaxCalls
  /\ calls' = calls + 1
  /\ metrics' = calculate_storage_stats
  /\ last' = [op |-> "stats", status |-> "ok", flag |-> FALSE]
  /\ UNCHANGED <<contents, files, disk, dirs, nextId, pc, loc, txc, txf, uploaded>>
  /\ NoTrigger /\ Watch

\* ------------------------------------------------------------------------
\* A worker process dying
\* ------------------------------------------------------------------------
\* The handler whose statement the label belongs to.
HandlerOf(label) ==
  IF label \in {"u_incr", "u_store", "u_save", "u_insert"} THEN "upload"
  ELSE IF label \in MetricsLabels THEN "metrics" ELSE "delete"

\* The process serving a request dies between two statements of
\* upload_file (lines 66-121), delete_file (lines 167-200) or
\* get_storage_metrics: its connection closes, the database rolls the open
\* transaction back, and what was done to the storage stays.
Crash(p) ==
  /\ pc[p] # "idle"
  /\ Raise(p, HandlerOf(pc[p]), "Crashed")
  /\ UNCHANGED <<disk, dirs, nextId, calls, uploaded, metrics>>
  /\ NoTrigger /\ Watch

\* ------------------------------------------------------------------------
\* Specifications
\* ------------------------------------------------------------------------
\* One step of a handler of the deduplication service, without storage
\* failures and with the indexing collaborator up: the next statement of
\* worker p's upload or delete.
Step(p) ==
  \/ \E u \in Uploads : UploadLookup(p, u)
  \/ UploadIncrement(p, RagUp)
  \/ UploadStore(p)
  \/ UploadSaveUpdate(p, RagUp)
  \/ UploadSaveInsert(p, RagUp)
  \/ \E i \in FileIds : DestroyGet(p, i)
  \/ DeleteRefresh(p)
  \/ DeleteSave(p, RagUp)
  \/ DeletePhysical(p)
  \/ DeleteCollect(p)
  \/ DeleteContentRow(p)
  \/ DeleteCommit(p, RagUp)

\* Requests are served by concurrent workers.
Next == \E p \in Procs : Step(p)

Spec == Init /\ [][Next]_vars

\* One request at a time: a worker takes a step only while every other
\* worker is idle.
Quiet(p) == \A q \in Procs \ {p} : pc[q] = "idle"

SerialNext == \E p \in Procs : Quiet(p) /\ Step(p)

SerialSpec == Init /\ [][SerialNext]_vars

\* Uploads only, one request at a time.
UploadSeqNext ==
  \E p \in Procs :
    /\ Quiet(p)
    /\ \/ \E u \in Uploads : UploadLookup(p, u)
       \/ UploadIncrement(p, RagUp)
       \/ UploadStore(p)
       \/ UploadSaveUpdate(p, RagUp)
       \/ UploadSaveInsert(p, RagUp)

UploadSeqSpec == Init /\ [][UploadSeqNext]_vars

\* Files the store holds when StoredSpec starts.
Preloaded == MaxCalls - 1

\* The store after Preloaded uploads of ContentA under one name, one after
\* the other (the state UploadSeqSpec reaches by them), no request running.
StoredInit ==
  LET u == [data |-> ContentA, name |-> <<"a", ".", "t">>, type |-> "text/plain"]
      h == compute_hash(u.data)
      path == content_addressable_path(h, StorageFilename(h, u.name))
  IN  /\ contents = [g \in Hashes |->
                       IF g = h
                       THEN [file |-> path, size |-> Len(u.data),
                             reference_count |-> Preloaded]
                       ELSE NoRow]
      /\ files = [i \in FileIds |->
                    IF i <= Preloaded
                    THEN [original_filename |-> u.name, file_type |-> u.type,
                          content |-> h]
                    ELSE NoRow]
      /\ disk = {path}
      /\ dirs = ParentDirs(path)
      /\ nextId = Preloaded + 1
      /\ pc = [p \in Procs |-> "idle"]
      /\ loc = [p \in Procs |-> NoLocals]
      /\ txc = [p \in Procs |-> [g \in Hashes |-> NoWrite]]
      /\ txf = [p \in Procs |-> [i \in FileIds |-> NoWrite]]
      /\ last = NoOutcome
      /\ calls = 0
      /\ uploaded = [i \in FileIds |-> IF i <= Preloaded THEN u.data ELSE NoBytes]
      /\ metrics = NoMetrics
      /\ rag = None
      /\ snaps = [p \in Procs |-> {}]
      /\ reader = None
      /\ mark = Unobserved

\* Concurrent workers on a store that already holds files.
StoredSpec == StoredInit /\ [][Next]_vars

\* Uploads of one content by concurrent workers, with the requests the view
\* turns away and with storage failures.
FaultUploads == { u \in Uploads : u.data = ContentA } \cup {LargeUpload}

FaultStep(p) ==
  \/ \E file_obj \in FaultUploads \cup {None} : CreateRejected(p, file_obj)
  \/ \E u \in FaultUploads : UploadLookup(p, u)
  \/ UploadIncrement(p, RagUp)
  \/ UploadStore(p)
  \/ UploadStoreFails(p)
  \/ UploadSaveUpdate(p, RagUp)
  \/ UploadSaveInsert(p, RagUp)
  \/ \E i \in FileIds : DestroyGet(p, i)
  \/ DeleteRefresh(p)
  \/ DeleteSave(p, RagUp)
  \/ DeletePhysical(p)
  \/ DeleteCollect(p)
  \/ DeleteContentRow(p)
  \/ DeleteCommit(p, RagUp)

FaultNext == \E p \in Procs : FaultStep(p)

FaultSpec == Init /\ [][FaultNext]_vars

\* Uploads of one content and deletes by concurrent workers, with an
\* indexing collaborator that can fail at every call.
RagStep(p) ==
  \/ \E u \in { v \in Uploads : v.data = ContentA } : UploadLookup(p, u)
  \/ \E outcome \in RagOutcomes : UploadIncrement(p, outcome)
  \/ UploadStore(p)
  \/ \E outcome \in RagOutcomes : UploadSaveUpdate(p, outcome)
  \/ \E outcome \in RagOutcomes : UploadSaveInsert(p, outcome)
  \/ \E i \in FileIds : DestroyGet(p, i)
  \/ DeleteRefresh(p)
  \/ \E outcome \in RagOutcomes : DeleteSave(p, outcome)
  \/ DeletePhysical(p)
  \/ DeleteCollect(p)
  \/ DeleteContentRow(p)
  \/ \E outcome \in RagOutcomes : DeleteCommit(p, outcome)

RagNext == \E p \in Procs : RagStep(p)

RagSpec == Init /\ [][RagNext]_vars

\* Uploads (the empty one among them), deletes and metrics calls, one
\* request at a time.
ApiStep(p) ==
  \/ \E file_obj \in Requests \cup {None} : CreateRejected(p, file_obj)
  \/ \E u \in Requests : UploadLookup(p, u)
  \/ UploadIncrement(p, RagUp)
  \/ UploadStore(p)
  \/ UploadSaveUpdate(p, RagUp)
  \/ UploadSaveInsert(p, RagUp)
  \/ \E i \in FileIds : DestroyGet(p, i)
  \/ DeleteRefresh(p)
  \/ DeleteSave(p, RagUp)
  \/ DeletePhysical(p)
  \/ DeleteCollect(p)
  \/ DeleteContentRow(p)
  \/ DeleteCommit(p, RagUp)
  \/ MetricsAggregate(p)
  \/ MetricsLogical(p)
  \/ MetricsCount(p)

ApiNext == \E p \in Procs : Quiet(p) /\ ApiStep(p)

ApiSpec == Init /\ [][ApiNext]_vars

\* One request at a time, served by a process that can die at any point.
CrashStep(p) ==
  \/ Step(p)
  \/ Crash(p)

CrashNext == \E p \in Procs : Quiet(p) /\ CrashStep(p)

CrashSpec == Init /\ [][CrashNext]_vars

\* Uploads, deletes and metrics calls served by concurrent workers.
MetricsRaceStep(p) ==
  \/ Step(p)
  \/ MetricsAggregate(p)
  \/ MetricsLogical(p)
  \/ MetricsCount(p)

MetricsRaceNext == \E p \in Procs : MetricsRaceStep(p)

MetricsRaceSpec == Init /\ [][MetricsRaceNext]_vars

\* One request at a time, on a file system that can refuse to remove a
\* directory.
ReclaimStep(p) ==
  \/ Step(p)
  \/ DeleteContentRowDenied(p)

ReclaimNext == \E p \in Procs : Quiet(p) /\ ReclaimStep(p)

ReclaimSpec == Init /\ [][ReclaimNext]_vars

\* Uploads of two contents of one shard directory and deletes by concurrent
\* workers, the storage write in its two steps.
ShardRaceStep(p) ==
  \/ \E u \in ShardUploads : UploadLookup(p, u)
  \/ UploadIncrement(p, RagUp)
  \/ UploadMakedirs(p)
  \/ UploadWrite(p)
  \/ UploadSaveUpdate(p, RagUp)
  \/ UploadSaveInsert(p, RagUp)
  \/ \E i \in FileIds : DestroyGet(p, i)
  \/ DeleteRefresh(p)
  \/ DeleteSave(p, RagUp)
  \/ DeletePhysical(p)
  \/ DeleteCollect(p)
  \/ DeleteContentRow(p)
  \/ DeleteCommit(p, RagUp)

ShardRaceNext == \E p \in Procs : ShardRaceStep(p)

ShardRaceSpec == Init /\ [][ShardRaceNext]_vars

\* One request at a time, the storage failing at will in an upload and
\* refusing the removal of a directory at will in a delete; the round trips
\* are followed.
RoundTripInit ==
  /\ contents = [h \in Hashes |-> NoRow]
  /\ files = [i \in FileIds |-> NoRow]
  /\ disk = {}
  /\ dirs = {}
  /\ nextId = 1
  /\ pc = [p \in Procs |-> "idle"]
  /\ loc = [p \in Procs |-> NoLocals]
  /\ txc = [p \in Procs |-> [h \in Hashes |-> NoWrite]]
  /\ txf = [p \in Procs |-> [i \in FileIds |-> NoWrite]]
  /\ last = NoOutcome
  /\ calls = 0
  /\ uploaded = [i \in FileIds |-> NoBytes]
  /\ metrics = NoMetrics
  /\ rag = None
  /\ snaps = [p \in Procs |-> {}]
  /\ reader = None
  /\ mark = NoMark

RoundTripStep(p) ==
  \/ Step(p)
  \/ UploadStoreFails(p)
  \/ DeleteContentRowDenied(p)

RoundTripNext == \E p \in Procs : Quiet(p) /\ RoundTripStep(p)

RoundTripSpec == RoundTripInit /\ [][RoundTripNext]_vars

\* One request at a time, the statistics view among them.
StatsStep(p) ==
  \/ Step(p)
  \/ StorageStatsGet(p)

StatsNext == \E p \in Procs : Quiet(p) /\ StatsStep(p)

StatsSpec == Init /\ [][StatsNext]_vars

\* compute_hash on its own, step by step, on readers of every content up to
\* two blocks long.
HashBytes == {1, 2}
HashLens == 0..(2 * BlockLen)
HashInputs == UNION { [1..n -> HashBytes] : n \in HashLens }

HashInit ==
  /\ contents = [h \in Hashes |-> NoRow]
  /\ files = [i \in FileIds |-> NoRow]
  /\ disk = {}
  /\ dirs = {}
  /\ nextId = 1
  /\ pc = [p \in Procs |-> "idle"]
  /\ loc = [p \in Procs |-> NoLocals]
  /\ txc = [p \in Procs |-> [h \in Hashes |-> NoWrite]]
  /\ txf = [p \in Procs |-> [i \in FileIds |-> NoWrite]]
  /\ last = NoOutcome
  /\ calls = 0
  /\ uploaded = [i \in FileIds |-> NoBytes]
  /\ metrics = NoMetrics
  /\ rag = None
  /\ snaps = [p \in Procs |-> {}]
  /\ mark = Unobserved
  /\ \E data \in HashInputs :
       reader = [data |-> data, pos |-> 0, sha256 |-> Sha256New,
                 at |-> "loop", digest |-> None]

HashFrame ==
  UNCHANGED <<contents, files, disk, dirs, nextId, pc, loc, txc, txf, last,
              calls, uploaded, metrics, rag, snaps, mark>>

\* Lines 46-47: one turn of the loop: file_obj.read(CHUNK_SIZE), then
\* sha256.update(chunk), or the end of the loop when the read is empty.
HashRead ==
  /\ reader.at = "loop"
  /\ LET chunk == ReadChunk(reader.data, reader.pos, BlockLen)
     IN  reader' =
           IF chunk = <<>>
           THEN [reader EXCEPT !.at = "seek"]
           ELSE [reader EXCEPT !.pos = reader.pos + Len(chunk),
                               !.sha256 = Sha256Update(reader.sha256, chunk)]
  /\ HashFrame

\* Lines 49-51: file_obj.seek(0); return sha256.hexdigest().
HashReturn ==
  /\ reader.at = "seek"
  /\ reader' = [Seek0(reader) EXCEPT !.at = "returned",
                                     !.digest = HexDigest(reader.sha256)]
  /\ HashFrame

HashNext == HashRead \/ HashReturn

HashSpec == HashInit /\ [][HashNext]_vars

\* ------------------------------------------------------------------------
\* Properties
\* ------------------------------------------------------------------------
AllIdle == \A p \in Procs : pc[p] = "idle"

\* Committed File rows that point at hash h.
FilesOf(h) == { i \in FileIds : files[i] # NoRow /\ files[i].content = h }

\* Physical files stored for hash h.
PhysicalOf(h) == { f \in disk : f[Len(f)].stem = h }

UploadLabels == {"u_incr", "u_store", "u_save", "u_insert"}
DeleteLabels == {"d_delete_file", "d_save", "d_physical", "d_collect",
                 "d_delete_content", "d_commit"}

\* Worker p's call returns (or raises) in this step.
Returns(p, labels) == pc[p] \in labels /\ pc'[p] = "idle"

TypeOK ==
  /\ nextId \in 1..(MaxCalls + 1)
  /\ calls \in 0..MaxCalls
  /\ \A h \in Hashes :
       contents[h] # NoRow => contents[h].reference_count \in Int
  /\ \A i \in FileIds : files[i] # NoRow => files[i].content \in Hashes

\* C1: in every committed state each FileContent's reference_count equals
\* the number of File rows whose content it is.
C1_CountEqualsReferences ==
  \A h \in Hashes :
    contents[h] # NoRow =>
      contents[h].reference_count = Cardinality(FilesOf(h))

\* C2: no increment is lost: every duplicate upload that completes leaves
\* the committed reference_count of its content exactly one above the
\* committed value it found, so concurrent duplicate uploads that all
\* complete add up to the initial count plus their number.
C2_NoLostIncrement ==
  [][\A p \in Procs :
       (Returns(p, {"u_incr"}) /\ last'.status = "ok") =>
         contents'[loc[p].hash].reference_count
           = contents[loc[p].hash].reference_count + 1]_vars

\* C3: at most one physical write happens per hash: the storage never holds
\* two physical files of one hash.
C3_SinglePhysicalWrite ==
  \A h \in Hashes : Cardinality(PhysicalOf(h)) <= 1

\* C4: whenever no call is in flight (also after a delete_file that raised),
\* the physical file of every existing FileContent row exists.
C4_BytesWhileRowExists ==
  AllIdle =>
    \A h \in Hashes : contents[h] # NoRow => contents[h].file \in disk

\* C5: every committed FileContent row has reference_count >= 1.
C5_CountAtLeastOne ==
  \A h \in Hashes : contents[h] # NoRow => contents[h].reference_count >= 1

\* A delete has returned after persisting a decremented count, and a row
\* with the smallest count exists.
C5_Witness ==
  /\ last.op = "delete" /\ last.status = "ok" /\ ~last.flag
  /\ \E h \in Hashes : contents[h] # NoRow /\ contents[h].reference_count = 1

\* Upload requests received so far that carried the bytes data.
UploadsOf(data) == { i \in FileIds : uploaded[i] = data }

\* C6: after N >= 1 uploads of the same bytes in sequence, starting without
\* a FileContent for them, there is exactly one FileContent for the bytes,
\* its reference_count is N and exactly N File rows point to it.
C6_SequentialUploadsCount ==
  AllIdle =>
    \A u \in Uploads :
      LET h == compute_hash(u.data)
          N == Cardinality(UploadsOf(u.data))
      IN  N >= 1 =>
            /\ contents[h] # NoRow
            /\ contents[h].reference_count = N
            /\ FilesOf(h) = UploadsOf(u.data)
            /\ Cardinality(FilesOf(h)) = N

\* The same bytes were uploaded three times in sequence.
C6_Witness ==
  /\ AllIdle
  /\ Cardinality(UploadsOf(ContentA)) = 3
  /\ contents[compute_hash(ContentA)] # NoRow

\* Committed File rows other than i that point at hash h.
OtherReferences(i, h) == FilesOf(h) \ {i}

\* C7: delete_file of a File whose content another File still references
\* returns physical_deleted = False, lowers the reference_count by exactly
\* 1 and leaves the FileContent row and its physical file in place.
C7_DeleteSharedKeepsContent ==
  [][\A p \in Procs :
       LET i == loc[p].file
           h == loc[p].hash
       IN  (Returns(p, DeleteLabels) /\ OtherReferences(i, h) # {}) =>
             /\ last' = [op |-> "delete", status |-> "ok", flag |-> FALSE]
             /\ files'[i] = NoRow
             /\ contents'[h] # NoRow
             /\ contents'[h].reference_count = contents[h].reference_count - 1
             /\ contents'[h].file = contents[h].file
             /\ contents'[h].file \in disk']_vars

\* A delete returned physical_deleted = False and left the row and its file.
C7_Witness ==
  /\ last = [op |-> "delete", status |-> "ok", flag |-> FALSE]
  /\ \E h \in Hashes :
       /\ contents[h] # NoRow
       /\ contents[h].file \in disk
       /\ FilesOf(h) # {}

\* C8: delete_file of the only File that references a content returns
\* physical_deleted = True, and afterwards the File row, the FileContent
\* row and the physical file are gone.
C8_DeleteLastRemovesContent ==
  [][\A p \in Procs :
       LET i == loc[p].file
           h == loc[p].hash
       IN  (Returns(p, DeleteLabels) /\ OtherReferences(i, h) = {}) =>
             /\ last' = [op |-> "delete", status |-> "ok", flag |-> TRUE]
             /\ files'[i] = NoRow
             /\ contents'[h] = NoRow
             /\ { f \in disk' : f[Len(f)].stem = h } = {}]_vars

\* A delete returned physical_deleted = True and some content is gone with
\* its File rows and physical files.
C8_Witness ==
  /\ last = [op |-> "delete", status |-> "ok", flag |-> TRUE]
  /\ \E i \in FileIds :
       /\ uploaded[i] # NoBytes
       /\ files[i] = NoRow
       /\ contents[compute_hash(uploaded[i])] = NoRow
       /\ PhysicalOf(compute_hash(uploaded[i])) = {}

\* C9: two File rows share a FileContent exactly when they were uploaded
\* with equal bytes, whatever their filenames and MIME types, and the
\* FileContent they point at exists.
C9_SameContentIffSameBytes ==
  \A i, j \in FileIds :
    (files[i] # NoRow /\ files[j] # NoRow) =>
      /\ (files[i].content = files[j].content) <=> (uploaded[i] = uploaded[j])
      /\ contents[files[i].content] # NoRow

\* Equal bytes under different filenames and MIME types share a content,
\* and different bytes under the same filename have two.
C9_Witness ==
  \E i, j, k \in FileIds :
    /\ files[i] # NoRow /\ files[j] # NoRow /\ files[k] # NoRow
    /\ uploaded[i] = uploaded[j]
    /\ files[i].original_filename # files[j].original_filename
    /\ files[i].file_type # files[j].file_type
    /\ files[i].content = files[j].content
    /\ uploaded[i] # uploaded[k]
    /\ files[i].original_filename = files[k].original_filename
    /\ files[i].content # files[k].content
    /\ contents[files[i].content] # NoRow /\ contents[files[k].content] # NoRow

\* C10: upload_file returns is_duplicate = True exactly when a FileContent
\* of the upload's hash existed before the call, and False exactly when the
\* call created the FileContent.
C10_IsDuplicateIffExisted ==
  [][\A p \in Procs :
       LET h == loc[p].hash
       IN  Returns(p, UploadLabels) =>
             /\ last'.op = "upload" /\ last'.status = "ok"
             /\ last'.flag <=> contents[h] # NoRow
             /\ ~last'.flag <=> (contents[h] = NoRow /\ contents'[h] # NoRow)
             /\ files'[loc[p].file] # NoRow
             /\ files'[loc[p].file].content = h]_vars

\* A later upload of bytes that are still stored returned is_duplicate = True.
C10_Witness ==
  /\ last = [op |-> "upload", status |-> "ok", flag |-> TRUE]
  /\ \E h \in Hashes : contents[h] # NoRow /\ Cardinality(FilesOf(h)) >= 2

\* C11: every successful upload_file call adds exactly one File row, also
\* for a duplicate, every successful delete_file call removes exactly one,
\* and no other step changes the File rows, so that their number is the
\* successful uploads minus the successful deletes.
C11_OneFilePerCall ==
  [][/\ \A p \in Procs :
          /\ (Returns(p, UploadLabels) /\ last'.status = "ok") =>
                Cardinality(StoredFiles') = Cardinality(StoredFiles) + 1
          /\ (Returns(p, DeleteLabels) /\ last'.status = "ok") =>
                Cardinality(StoredFiles') = Cardinality(StoredFiles) - 1
     /\ (\A p \in Procs :
           ~(Returns(p, UploadLabels \cup DeleteLabels) /\ last'.status = "ok")) =>
          StoredFiles' = StoredFiles]_vars

\* The File, FileContent and physical state, with the uncommitted writes.
store == <<contents, files, disk, dirs, txc, txf>>

\* A request is answered at once, without a handler of the service running.
AnsweredAtOnce == calls' # calls /\ pc' = pc

\* C12: a Delete request for an id that has no File row is answered
\* NotFound and changes no File, no FileContent, no reference_count and no
\* physical file; delete_file runs only for an id that has a File row.
C12_DeleteUnknownIdNotFound ==
  [][/\ (AnsweredAtOnce /\ last'.op = "delete") =>
          /\ last'.status = "NotFound"
          /\ \E i \in FileIds : files[i] = NoRow
          /\ UNCHANGED store
     /\ \A p \in Procs :
          (pc[p] = "idle" /\ pc'[p] = "d_delete_file") =>
            files[loc'[p].file] # NoRow]_vars

\* A Delete of an unknown id was answered NotFound while files are stored.
C12_Witness ==
  /\ last.op = "delete" /\ last.status = "NotFound"
  /\ StoredFiles # {}
  /\ AllIdle

\* C13: an upload larger than the maximum is turned away with an error
\* before it is hashed or stored: no handler ever works on such an upload,
\* no File id is taken for it, and the answer leaves File rows, FileContent
\* rows and physical files unchanged.
C13_OversizeRejectedFirst ==
  /\ [](/\ \A p \in Procs :
            loc[p].u # None => Len(loc[p].u.data) <= get_max_upload_size
        /\ \A i \in FileIds :
            uploaded[i] # NoBytes => Len(uploaded[i]) <= get_max_upload_size)
  /\ [][(AnsweredAtOnce /\ last'.status = "TooLarge") =>
          /\ Len(last'.file_obj.data) > get_max_upload_size
          /\ UNCHANGED store]_vars

\* An oversize upload was turned away while files are stored.
C13_Witness ==
  /\ last.status = "TooLarge"
  /\ Len(last.file_obj.data) = get_max_upload_size + 1
  /\ StoredFiles # {}

\* The hash of the empty content.
EmptyHash == compute_hash(<<>>)

\* C14: an upload of empty content succeeds, and all empty uploads share
\* one FileContent: the call returns is_duplicate = True exactly when an
\* earlier empty upload is still stored, and afterwards there is one
\* FileContent of size 0 with one physical file, counting every File of an
\* empty upload.
C14_EmptyUploadsDeduplicate ==
  [][\A p \in Procs :
       (Returns(p, UploadLabels) /\ loc[p].u.data = <<>>) =>
         /\ last'.op = "upload" /\ last'.status = "ok"
         /\ last'.flag <=> contents[EmptyHash] # NoRow
         /\ contents'[EmptyHash] # NoRow
         /\ contents'[EmptyHash].size = 0
         /\ files'[loc[p].file] # NoRow
         /\ files'[loc[p].file].content = EmptyHash
         /\ contents'[EmptyHash].reference_count = Cardinality(FilesOf(EmptyHash)')
         /\ Cardinality(PhysicalOf(EmptyHash)') = 1]_vars

\* Two empty uploads under different names share one FileContent, and the
\* second one returned is_duplicate = True.
C14_Witness ==
  /\ last = [op |-> "upload", status |-> "ok", flag |-> TRUE]
  /\ contents[EmptyHash] # NoRow
  /\ contents[EmptyHash].reference_count = 2
  /\ \E i, j \in FilesOf(EmptyHash) :
       /\ files[i].original_filename # files[j].original_filename
       /\ uploaded[i] = <<>> /\ uploaded[j] = <<>>

\* C15 as stated: an upload whose content stream is empty fails with
\* InputError and creates no File row, no FileContent row and no physical
\* file.
C15_EmptyUploadFails ==
  [][\A p \in Procs :
       (Returns(p, UploadLabels) /\ loc[p].u.data = <<>>) =>
         /\ last'.status = "InputError"
         /\ UNCHANGED <<contents, files, disk>>]_vars

\* C15 as amended: an upload request without a file part is answered with
\* an error (400, no file provided) and creates no File row, no FileContent
\* row and no physical file; only such a request is answered that way: a
\* file part without bytes is not turned away.
C15_NoFilePartRejected ==
  [][(AnsweredAtOnce /\ last'.status = "NoFile") =>
       /\ last'.op = "upload"
       /\ last'.file_obj = None
       /\ UNCHANGED store]_vars

\* A request without a file part was turned away while an empty upload is
\* stored.
C15_Witness ==
  /\ last.status = "NoFile"
  /\ last.file_obj = None
  /\ \E i \in StoredFiles : uploaded[i] = <<>>

\* C16: when the physical write fails while upload_file stores new content,
\* the upload is aborted: the call commits no FileContent row and no File
\* row, leaves nothing uncommitted behind, and every row that existed is
\* unchanged.
C16_FailedWriteAbortsUpload ==
  [][\A p \in Procs :
       (Returns(p, UploadLabels) /\ last'.status = "OSError") =>
         /\ pc[p] = "u_store"
         /\ UNCHANGED <<contents, files>>
         /\ contents'[loc[p].hash] = contents[loc[p].hash]
         /\ files'[loc[p].file] = NoRow
         /\ \A h \in Hashes : txc'[p][h] = NoWrite
         /\ \A i \in FileIds : txf'[p][i] = NoWrite]_vars

\* An upload failed in the physical write while other files are stored.
C16_Witness ==
  /\ last = [op |-> "upload", status |-> "OSError", flag |-> FALSE]
  /\ StoredFiles # {}
  /\ \E i \in FileIds : uploaded[i] # NoBytes /\ files[i] = NoRow

\* Worker p's get_storage_metrics call returns in this step.
MetricsReturns(p) == pc[p] = "m_count" /\ pc'[p] = "idle"

RECURSIVE SavedBytes(_)
\* The sum of (reference_count - 1) x size over the rows of the hashes hs.
SavedBytes(hs) ==
  IF hs = {} THEN 0
  ELSE LET h == CHOOSE x \in hs : TRUE
       IN  (contents[h].reference_count - 1) * contents[h].size
             + SavedBytes(hs \ {h})

\* C17: get_storage_metrics returns storage_saved = logical_size -
\* physical_size, and that value is the sum over the FileContent rows of
\* (reference_count - 1) x size, hence not negative.
C17_StorageSavedIsDuplicateBytes ==
  [][\A p \in Procs :
       MetricsReturns(p) =>
         /\ metrics'.storage_saved = metrics'.logical_size - metrics'.physical_size
         /\ metrics'.storage_saved = SavedBytes(StoredHashes)
         /\ metrics'.storage_saved >= 0]_vars

\* Metrics were returned for a store with two contents, one of them
\* referenced twice, and two bytes are saved.
C17_Witness ==
  /\ metrics # NoMetrics
  /\ metrics.unique_contents = 2
  /\ metrics.total_files = 3
  /\ metrics.storage_saved = Len(ContentA)
  /\ AllIdle

\* The ratio r has the value a / b.
IsQuotient(r, a, b) == r.den > 0 /\ b > 0 /\ r.num * b = a * r.den

\* C18: get_storage_metrics returns deduplication_ratio = 1.0 when there
\* is no File row, and otherwise unique_contents / total_files, which lies
\* in (0, 1].
C18_DeduplicationRatio ==
  [][\A p \in Procs :
       MetricsReturns(p) =>
         LET r == metrics'.deduplication_ratio
         IN  IF StoredFiles = {}
             THEN IsQuotient(r, 1, 1)
             ELSE /\ IsQuotient(r, Cardinality(StoredHashes), Cardinality(StoredFiles))
                  /\ 0 < r.num /\ r.num <= r.den]_vars

\* Metrics were returned for three files on two contents: the ratio is 2/3.
C18_Witness ==
  /\ metrics # NoMetrics
  /\ metrics.total_files = 3
  /\ IsQuotient(metrics.deduplication_ratio, 2, 3)
  /\ AllIdle

\* C19: delete_file of a File changes only that File and its own content:
\* no step of the call changes another File row, or the FileContent row,
\* the reference_count or the physical files of another hash.
C19_DeleteTouchesOwnContentOnly ==
  [][\A p \in Procs :
       (pc[p] \in DeleteLabels /\ pc'[p] # pc[p]) =>
         /\ \A j \in FileIds \ {loc[p].file} : files'[j] = files[j]
         /\ \A g \in Hashes \ {loc[p].hash} :
              /\ contents'[g] = contents[g]
              /\ PhysicalOf(g)' = PhysicalOf(g)]_vars

\* The only File of one content was deleted with its row and bytes, and
\* another content is stored with its row, count, File and bytes.
C19_Witness ==
  /\ last = [op |-> "delete", status |-> "ok", flag |-> TRUE]
  /\ \E i \in FileIds, g \in Hashes :
       /\ uploaded[i] # NoBytes
       /\ files[i] = NoRow
       /\ compute_hash(uploaded[i]) # g
       /\ contents[compute_hash(uploaded[i])] = NoRow
       /\ PhysicalOf(compute_hash(uploaded[i])) = {}
       /\ contents[g] # NoRow
       /\ contents[g].reference_count = 1
       /\ Cardinality(FilesOf(g)) = 1
       /\ contents[g].file \in disk

\* C20: the physical location of every stored FileContent is
\* cas/<hash[0:2]>/<hash[2:4]>/<hash>, followed by '.' and the extension
\* when the upload that created it had one: the path the hash and the
\* extension determine.
C20_LocationFromHashAndExtension ==
  \A h \in Hashes :
    contents[h] # NoRow =>
      \E u \in Requests :
        /\ compute_hash(u.data) = h
        /\ contents[h].file = content_addressable_path(h, StorageFilename(h, u.name))

\* C21: an exception of the indexing collaborator, on upload or on delete,
\* never fails the call: a call whose trigger failed returns what the same
\* branch returns when the collaborator succeeds (success, is_duplicate or
\* physical_deleted as the branch decides) and commits the same rows (the
\* File created and its FileContent kept; the File deleted, the count
\* written or the FileContent removed).
C21_CollaboratorFailureHarmless ==
  [][\A p \in Procs :
       ( /\ Returns(p, UploadLabels \cup DeleteLabels)
         /\ rag' # None
         /\ rag'.outcome = "failed" )
       => /\ last'.status = "ok"
          /\ last'.flag = (pc[p] \in {"u_incr", "d_commit"})
          /\ IF pc[p] \in UploadLabels
             THEN /\ last'.op = "upload"
                  /\ files'[loc[p].file] = NewFileRecord(p)
                  /\ contents'[loc[p].hash] # NoRow
                  /\ pc[p] = "u_incr" =>
                       contents'[loc[p].hash].reference_count
                         = loc[p].content.reference_count + 1
             ELSE /\ last'.op = "delete"
                  /\ files'[loc[p].file] = NoRow
                  /\ pc[p] = "d_commit" => contents'[loc[p].hash] = NoRow
                  /\ pc[p] = "d_save" =>
                       /\ contents'[loc[p].hash] # NoRow
                       /\ contents'[loc[p].hash].reference_count
                            = loc[p].content.reference_count
    ]_vars

\* A delete of a last reference has returned physical_deleted = True
\* although its index cleanup failed.
C21_Witness ==
  /\ rag # None
  /\ rag.kind = "cleanup"
  /\ rag.outcome = "failed"
  /\ last = [op |-> "delete", status |-> "ok", flag |-> TRUE]

\* Worker p's call returns successfully in this step.
Succeeds(p, labels) == Returns(p, labels) /\ last'.status = "ok"

\* C22: a step in which an upload returns successfully triggers indexing,
\* once, for the File that call created (duplicate content or not); a step
\* in which a delete returns successfully triggers index cleanup, once,
\* with the id of the File it deleted; no other step calls the collaborator.
C22_OneTriggerPerSuccess ==
  [][IF \E p \in Procs : Succeeds(p, UploadLabels)
     THEN \E p \in Procs :
            /\ Succeeds(p, UploadLabels)
            /\ rag' # None
            /\ rag'.kind = "index"
            /\ rag'.file = loc[p].file
            /\ files'[rag'.file] = NewFileRecord(p)
     ELSE IF \E p \in Procs : Succeeds(p, DeleteLabels)
     THEN \E p \in Procs :
            /\ Succeeds(p, DeleteLabels)
            /\ rag' # None
            /\ rag'.kind = "cleanup"
            /\ rag'.file = loc[p].file
            /\ files'[rag'.file] = NoRow
     ELSE rag' = None
    ]_vars

\* The upload of a duplicate has just returned and triggered indexing.
C22_Witness ==
  /\ last = [op |-> "upload", status |-> "ok", flag |-> TRUE]
  /\ rag # None
  /\ rag.kind = "index"
  /\ files[rag.file] # NoRow

\* Hashes whose committed row changes in this step.
ChangedHashes == { h \in Hashes : contents'[h] # contents[h] }

C24_ConcurrentDeletesSerialize ==
  [][\A p \in Procs :
       Succeeds(p, DeleteLabels)
       => LET h == loc[p].hash
          IN  IF contents'[h] = NoRow
              THEN loc[p].content.file \notin disk'
              ELSE contents'[h].reference_count <=
                     Cardinality({ i \in FileIds :
                                     files'[i] # NoRow /\ files'[i].content = h })
    ]_vars

\* C25: however a duplicate upload and the delete of the last referencing
\* File of the same hash interleave, once both calls are over every
\* committed File record references a FileContent row that exists and
\* whose physical file exists.
C25_CommittedFilesHaveBytes ==
  AllIdle =>
    \A i \in StoredFiles :
      /\ contents[files[i].content] # NoRow
      /\ contents[files[i].content].file \in disk

\* C26: when an upload of new content whose bytes were written ends
\* without committing (an exception, or the process dies), nothing durable
\* is left for that call or a consistent pair is: the physical file it
\* wrote is gone or is the file of the hash's FileContent row, and a
\* FileContent row of the hash has its physical file.
C26_NoOrphanAfterFailedUpload ==
  [][\A p \in Procs :
       ( /\ pc[p] \in {"u_save", "u_insert"}
         /\ pc'[p] = "idle"
         /\ last'.status # "ok" )
       => LET h == loc[p].hash
              path == loc[p].content.file
          IN  /\ path \in disk' =>
                   (contents'[h] # NoRow /\ contents'[h].file = path)
              /\ contents'[h] # NoRow => contents'[h].file \in disk'
    ]_vars

\* C27: the total_files, unique_contents, logical_size and physical_size
\* one get_storage_metrics call returns are the values of one committed
\* state of the store, one of the states that existed between the call's
\* first query and its return, whatever commits in between.
C27_MetricsFromOneState ==
  [][\A p \in Procs :
       MetricsReturns(p)
       => \E s \in snaps[p] :
            /\ metrics'.total_files = s.total_files
            /\ metrics'.unique_contents = s.unique_contents
            /\ metrics'.logical_size = s.logical_size
            /\ metrics'.physical_size = s.physical_size
    ]_vars

\* C28: in every reachable state every committed File record references a
\* committed FileContent row, and no step removes a FileContent row that a
\* committed File record references once the step is done.
C28_ForeignKeyIntegrity ==
  /\ [](\A i \in StoredFiles : contents[files[i].content] # NoRow)
  /\ [][\A h \in Hashes :
          (contents[h] # NoRow /\ contents'[h] = NoRow)
          => \A i \in FileIds : files'[i] # NoRow => files'[i].content # h
       ]_vars

\* The commit of a delete that had removed the FileContent row was refused
\* because a File record committed meanwhile references that row.
C28_Witness ==
  /\ last = [op |-> "delete", status |-> "IntegrityError", flag |-> FALSE]
  /\ \E i \in StoredFiles : contents[files[i].content] # NoRow
  /\ AllIdle

\* The reclaimer runs in this step of worker p's delete.
Reclaims(p) == pc[p] = "d_delete_content" /\ pc'[p] = "d_commit"

\* C29: the walk after a physical delete removes only directories above
\* the deleted file and below the CAS root, each only if it is empty when
\* the walk comes to it; it stops at the first directory that is not empty
\* (the first shard level goes only if the second went); and when nothing
\* else is in the deleted file's shard both shard levels are removed.
C29_ReclaimerWalk ==
  [][\A p \in Procs :
       Reclaims(p)
       => LET shard == Dirname(loc[p].content.file)
              top == Dirname(shard)
              removed == dirs \ dirs'
          IN  /\ dirs' \subseteq dirs
              /\ removed \subseteq {shard, top}
              /\ \A d \in removed : d # CasRoot /\ StartsWith(d, CasRoot)
              /\ shard \in removed <=>
                   (shard \in dirs /\ ListDir(shard, disk, dirs) = {})
              /\ top \in removed <=>
                   /\ shard \in removed
                   /\ top \in dirs
                   /\ ListDir(top, disk, dirs \ {shard}) = {}
    ]_vars

\* A delete of a last reference has returned and the directory of its
\* file is still there, holding another file; no FileContent is left.
C29_Witness ==
  /\ last = [op |-> "delete", status |-> "ok", flag |-> TRUE]
  /\ StoredHashes = {}
  /\ disk # {}
  /\ \A f \in disk : ParentDirs(f) \subseteq dirs
  /\ AllIdle

\* An empty directory is left above the file worker p's delete removed.
EmptyShardLeft(p) ==
  LET shard == Dirname(loc[p].content.file)
      top == Dirname(shard)
  IN  \/ shard \in dirs /\ ListDir(shard, disk, dirs) = {}
      \/ shard \notin dirs /\ top \in dirs /\ ListDir(top, disk, dirs) = {}

\* C30: when the removal of a directory fails during reclamation, the walk
\* stops there (the directory and those above it stay) and nothing is
\* raised: the call goes on to its commit with the rows untouched, and it
\* then commits the removal of the File and the FileContent and returns
\* physical_deleted = True.
C30_DeniedRemovalSwallowed ==
  [][\A p \in Procs :
       LET i == loc[p].file
           h == loc[p].hash
           file_path == loc[p].content.file
       IN  /\ ( /\ pc[p] = "d_delete_content"
                /\ pc'[p] # pc[p]
                /\ dirs' # cleanup_empty_directories(file_path, disk, dirs) )
              => /\ pc'[p] = "d_commit"
                 /\ cleanup_empty_directories(file_path, disk, dirs) \subseteq dirs'
                 /\ dirs' \subseteq dirs
                 /\ txf'[p][i] = NoRow
                 /\ txc'[p][h] = NoRow
                 /\ UNCHANGED <<contents, files, disk, last>>
           /\ ( /\ pc[p] = "d_commit"
                /\ pc'[p] # pc[p]
                /\ EmptyShardLeft(p) )
              => /\ last' = [op |-> "delete", status |-> "ok", flag |-> TRUE]
                 /\ files'[i] = NoRow
                 /\ contents'[h] = NoRow
                 /\ file_path \notin disk'
    ]_vars

\* A delete has returned physical_deleted = True and removed the last
\* content, and an empty shard directory is still there.
C30_Witness ==
  /\ last = [op |-> "delete", status |-> "ok", flag |-> TRUE]
  /\ StoredHashes = {}
  /\ disk = {}
  /\ dirs # {}
  /\ AllIdle

\* C31: a directory is removed on behalf of a delete only once that
\* delete's transaction has committed: in a step in which worker p's delete
\* removes a directory, the removal of its File and FileContent is already
\* among the committed rows and p has no write pending.
C31_ReclaimAfterCommit ==
  [][\A p \in Procs :
       (pc[p] \in DeleteLabels /\ pc'[p] # pc[p] /\ dirs' # dirs)
       => /\ files[loc[p].file] = NoRow
          /\ contents[loc[p].hash] = NoRow
          /\ \A h \in Hashes : txc[p][h] = NoWrite
          /\ \A i \in FileIds : txf[p][i] = NoWrite
    ]_vars

\* C32: an upload of content C, the only upload of those bytes so far, is
\* never made to fail and never loses its physical file by a delete of
\* another content that reclaims the shard directory of C's path: the
\* storage write of the upload succeeds and leaves the file on disk, and no
\* step of a delete removes a physical file of another hash.
C32_ReclaimNeverBreaksUpload ==
  [][\A p \in Procs :
       /\ ( /\ pc[p] = "u_write"
            /\ pc'[p] # pc[p]
            /\ loc[p].u.data = ContentC
            /\ \A i \in FileIds \ {loc[p].file} : uploaded[i] # ContentC )
          => /\ pc'[p] = "u_save"
             /\ loc'[p].content.file \in disk'
       /\ (pc[p] \in DeleteLabels /\ pc'[p] # pc[p])
          => \A f \in disk \ disk' : f[Len(f)].stem = loc[p].hash
    ]_vars

\* C33: upload_file never awaits the indexing collaborator: whatever the
\* size of the file, a successful upload hands the File to the collaborator
\* without waiting for the indexing to run.
C33_UploadNeverAwaitsIndexing ==
  [][\A p \in Procs :
       Succeeds(p, UploadLabels)
       => /\ rag' # None
          /\ rag'.kind = "index"
          /\ rag'.mode = "queued"
    ]_vars

\* C39: an indexing notification is only issued for a committed File:
\* whenever upload_file triggers indexing, the File row is already
\* committed (a task worker finds it), and whenever delete_file triggers the
\* index cleanup, the delete of the File row is already committed.
C39_NotifyOnlyCommitted ==
  [][rag' # None
     => /\ rag'.kind = "index" => rag'.row # NoRow
        /\ rag'.kind = "cleanup" => rag'.row = NoRow
    ]_vars

\* C34: the size filter has no effect on upload_file: every upload is
\* hashed, and the content found and the branch taken are those of the
\* lookup by hash, whether or not a stored content has the size of the
\* upload.
C34_SizeFilterNoEffect ==
  [][\A p \in Procs :
       (pc[p] = "idle" /\ pc'[p] \in {"u_incr", "u_store"})
       => /\ loc'[p].hash = compute_hash(loc'[p].u.data)
          /\ loc'[p].content = VisibleContent(p, compute_hash(loc'[p].u.data))
          /\ pc'[p] = "u_incr" <=> loc'[p].content # NoRow
    ]_vars

\* An upload of new bytes takes the new-content branch although a stored
\* content of another hash has its size.
C34_Witness ==
  \E p \in Procs :
    /\ pc[p] = "u_store"
    /\ loc[p].u.data = ContentC
    /\ contents[compute_hash(ContentA)] # NoRow
    /\ contents[compute_hash(ContentA)].size = Len(ContentC)
    /\ contents[loc[p].hash] = NoRow

\* C35: after compute_hash has returned, the reader is at the start and a
\* read yields the complete content, whatever its length (empty, a multiple
\* of the block size, or neither); the digest returned is that of the
\* content.
C35_ReaderRewound ==
  reader.at = "returned"
  => /\ reader.pos = 0
     /\ Read(reader) = reader.data
     /\ reader.digest = compute_hash(reader.data)

\* compute_hash has returned for a content of exactly two blocks.
C35_Witness ==
  /\ reader.at = "returned"
  /\ Len(reader.data) = 2 * BlockLen

\* compute_hash has returned for the empty content.
C35_WitnessEmpty ==
  /\ reader.at = "returned"
  /\ reader.data = <<>>

\* C36: each File record causes at most one decrement: the steps of a
\* delete_file call whose DELETE of the File matched no row (the row was
\* already removed) change no FileContent row and remove no physical file.
C36_OneDecrementPerFile ==
  [][\A p \in Procs :
       ( /\ pc[p] \in DeleteLabels \ {"d_delete_file"}
         /\ pc'[p] # pc[p]
         /\ txf[p][loc[p].file] = NoWrite )
       => /\ contents' = contents
          /\ disk' = disk
    ]_vars

\* A round trip is over: an upload and then the delete of the File it
\* returned have both succeeded, with no other request in between.
RoundTripDone == mark # Unobserved /\ mark # NoMark /\ mark.done

\* Directory d holds a physical file, in it or below it.
HoldsFile(d, fs) == \E f \in fs : StartsWith(f, d)

\* C37 as stated: after a round trip the File records, the FileContent rows
\* with their reference_counts, the physical files and the shard
\* directories are those the upload found.
C37_RoundTripRestores ==
  RoundTripDone
  => /\ files = mark.files
     /\ contents = mark.contents
     /\ disk = mark.disk
     /\ dirs = mark.dirs

\* C37 amended: after a round trip the File records, the FileContent rows
\* with their reference_counts and the physical files are those the upload
\* found, and so are the shard directories except for directories that
\* hold no physical file.
C37_RoundTripRestoresUpToEmptyDirs ==
  RoundTripDone
  => /\ files = mark.files
     /\ contents = mark.contents
     /\ disk = mark.disk
     /\ \A d \in (dirs \ mark.dirs) \cup (mark.dirs \ dirs) : ~HoldsFile(d, disk)

\* A round trip is over in a store that holds other content, and it removed
\* a directory that was empty before.
C37_Witness ==
  /\ RoundTripDone
  /\ disk # {}
  /\ mark.dirs \ dirs # {}

\* C38: the statistics view and get_storage_metrics agree in every
\* reachable state: what the view answers is what the service returns for
\* the same committed state, in total files, unique contents, logical
\* size, physical size, bytes saved and deduplication ratio, the empty
\* store included.
C38_StatsViewAgreesWithService ==
  [][(calls' # calls /\ last'.op = "stats")
     => /\ metrics'.total_files = Snapshot.total_files
        /\ metrics'.unique_contents = Snapshot.unique_contents
        /\ metrics'.logical_size_bytes = Snapshot.logical_size
        /\ metrics'.physical_size_bytes = Snapshot.physical_size
        /\ metrics'.bytes_saved = Snapshot.logical_size - Snapshot.physical_size
        /\ LET ratio == DeduplicationRatio(Snapshot.unique_contents,
                                           Snapshot.total_files)
           IN  metrics'.deduplication_ratio.num * ratio.den
                 = ratio.num * metrics'.deduplication_ratio.den
    ]_vars

====
